---- MODULE Spec2Model ----
(***************************************************************************)
(* tiro / hauptverwalter: the relational store of Legislatur, Sitzung,     *)
(* Antrag, Unterantrag and Lesung rows, the save() transactions that       *)
(* number and validate them, and the lifecycle operations on Antrag and    *)
(* Lesung.                                                                 *)
(*                                                                         *)
(* Time is counted in ticks; a calendar day has TicksPerDay ticks.         *)
(* A nullable value whose type includes 0 is a sequence of length <= 1     *)
(* (None == <<>>, Some(x) == <<x>>).  A nullable key whose valid values    *)
(* are >= 1 (nummer, legislatur_id, pk) uses NULL.                         *)
(***************************************************************************)
EXTENDS Integers, Sequences, FiniteSets, TLC

VARIABLES
    legislaturen,   \* table Legislatur: nummer -> [anfangsdatum, enddatum]
    antraege,       \* table Antrag: id -> row
    unterantraege,  \* table Unterantrag: id -> row
    sitzungen,      \* table Sitzung: id -> row
    lesungen,       \* table Lesung: id -> row
    topnames,       \* table TOPname: sitzung -> (prio -> name)
    tx,             \* the save() transactions in flight, one per request
    now,            \* timezone.now(), in ticks
    result,         \* what the last completed single-step operation returned
    vergeben        \* history: every (kind, scope, nummer, id) ever inserted

vars == <<legislaturen, antraege, unterantraege, sitzungen, lesungen, topnames,
          tx, now, result, vergeben>>

stores ==
    <<legislaturen, antraege, unterantraege, sitzungen, lesungen, topnames>>

-----------------------------------------------------------------------------
(* Bounds *)

MaxTx == 2

TicksPerDay == 2

MaxNow == 2

MaxLesungen == 2

MaxLegislaturen == 2

TxIds == 1..MaxTx

-----------------------------------------------------------------------------
(* Values *)

NULL == 0

None == <<>>

Some(x) == <<x>>

DateOf(t) == t \div TicksPerDay

MaxOf(S) == IF S = {} THEN NULL ELSE CHOOSE m \in S : \A x \in S : x <= m

Put(f, k, v) == [i \in DOMAIN f \cup {k} |-> IF i = k THEN v ELSE f[i]]

Drop(f, S) == [i \in DOMAIN f \ S |-> f[i]]

statuschoices == {"B", "A", "N", "Z", "X", "P"}

typchoices == {"F", "S", "P", "A"}

lesungresultchoices == {"AV", "NN", "E", "V", "ZV", "B", "A", "T", "NT"}

NoResult == [op |-> "", target |-> NULL, obj |-> <<>>, ok |-> TRUE, err |-> {}]

-----------------------------------------------------------------------------
(* Antrag: properties and validation *)

is_finanzantrag(o) == o.typ = "F"

is_soantrag(o) == o.typ = "S"

will_orgsatzung_aendern(o) == o.orgsatzungsaenderung

SummeOr0(o) == IF o.antragssumme = None THEN 0 ELSE o.antragssumme[1]

InLegislatur(leg, t) ==
    /\ legislaturen[leg].anfangsdatum <= DateOf(t)
    /\ DateOf(t) <= legislaturen[leg].enddatum

\* Model.clean_fields for Antrag: the field validators and blank=False.
AntragCleanFields(o) ==
    (IF o.titel = "" THEN {"titel"} ELSE {})
    \cup (IF o.nummer # NULL /\ o.nummer < 1 THEN {"nummer"} ELSE {})
    \cup (IF o.minlesungen < 1 THEN {"minlesungen"} ELSE {})
    \cup (IF o.antragssumme # None /\ o.antragssumme[1] < 0
          THEN {"antragssumme"} ELSE {})
    \cup (IF o.status \notin statuschoices THEN {"status"} ELSE {})
    \cup (IF o.typ \notin typchoices THEN {"typ"} ELSE {})

\* Antrag.clean with the rules for typ "F" only: nothing forbids a sum or a
\* Haushaltsposten on the other types.
AntragCleanNurFinanz(o) ==
    IF /\ o.legislatur # NULL
       /\ o.formell_eingereicht # None
       /\ ~InLegislatur(o.legislatur, o.formell_eingereicht[1])
    THEN {"formell_eingereicht"}
    ELSE IF is_finanzantrag(o) /\ ~(SummeOr0(o) > 0) THEN {"antragssumme"}
    ELSE IF is_finanzantrag(o) /\ o.haushaltsposten = "" THEN {"haushaltsposten"}
    ELSE IF will_orgsatzung_aendern(o) /\ ~is_soantrag(o)
    THEN {"orgsatzungsaenderung"}
    ELSE IF o.synopse /\ ~is_soantrag(o) THEN {"synopse"}
    ELSE {}

\* Antrag.clean: raises on the first rule that fails.
AntragClean(o) ==
    IF /\ o.legislatur # NULL
       /\ o.formell_eingereicht # None
       /\ ~InLegislatur(o.legislatur, o.formell_eingereicht[1])
    THEN {"formell_eingereicht"}
    ELSE IF is_finanzantrag(o) /\ ~(SummeOr0(o) > 0) THEN {"antragssumme"}
    ELSE IF is_finanzantrag(o) /\ o.haushaltsposten = "" THEN {"haushaltsposten"}
    ELSE IF ~is_finanzantrag(o) /\ SummeOr0(o) > 0 THEN {"antragssumme"}
    ELSE IF ~is_finanzantrag(o) /\ o.haushaltsposten # "" THEN {"haushaltsposten"}
    ELSE IF will_orgsatzung_aendern(o) /\ ~is_soantrag(o)
    THEN {"orgsatzungsaenderung"}
    ELSE IF o.synopse /\ ~is_soantrag(o) THEN {"synopse"}
    ELSE {}

\* UniqueConstraint(legislatur, nummer), as full_clean and the database check it.
AntragUnique(o, pk) ==
    IF \E i \in DOMAIN antraege \ {pk} :
           /\ antraege[i].legislatur = o.legislatur
           /\ antraege[i].nummer = o.nummer
    THEN {"unique_legislatur_nummer_antrag"} ELSE {}

\* Model.full_clean as Antrag.save calls it.
AntragFullClean(o, pk) ==
    AntragCleanFields(o) \cup AntragClean(o) \cup AntragUnique(o, pk)

-----------------------------------------------------------------------------
(* Sitzung: validation *)

SitzungCleanFields(o) ==
    (IF o.nummer # NULL /\ (o.nummer < 1 \/ o.nummer > 10000)
     THEN {"nummer"} ELSE {})
    \cup (IF o.ort = "" THEN {"ort"} ELSE {})

\* Sitzung.clean
SitzungClean(o) ==
    IF o.legislatur # NULL /\ ~InLegislatur(o.legislatur, o.anfang)
    THEN {"anfang"}
    ELSE IF o.ende # None /\ o.anfang > o.ende[1] THEN {"ende"}
    ELSE {}

\* nummer is unique=True over all Sitzungen.
SitzungUnique(o, pk) ==
    IF o.nummer # NULL /\ \E i \in DOMAIN sitzungen \ {pk} :
                              sitzungen[i].nummer = o.nummer
    THEN {"nummer"} ELSE {}

SitzungFullClean(o, pk) ==
    SitzungCleanFields(o) \cup SitzungClean(o) \cup SitzungUnique(o, pk)

-----------------------------------------------------------------------------
(* Unterantrag: validation *)

\* clean_fields: blank=False, and the ForeignKey's validate(), which looks the
\* Hauptantrag up in the table under limit_choices_to {"status": "B"}.
UnterantragCleanFields(o) ==
    (IF o.titel = "" THEN {"titel"} ELSE {})
    \cup (IF o.hauptantrag \in DOMAIN antraege
             /\ antraege[o.hauptantrag].status = "B"
          THEN {} ELSE {"hauptantrag"})

\* Unterantrag.clean: reads the status of the Hauptantrag object the instance
\* holds (cache: its status when the instance fetched it).
UnterantragClean(o, cache) ==
    IF cache # "B" THEN {"hauptantrag"} ELSE {}

UnterantragUnique(o, pk) ==
    IF \E i \in DOMAIN unterantraege \ {pk} :
           /\ unterantraege[i].hauptantrag = o.hauptantrag
           /\ unterantraege[i].nummer = o.nummer
    THEN {"unique_hauptantrag_nummer_unterantrag"} ELSE {}

\* Validation on creation only.
UnterantragFullCleanOnCreate(o, pk, cache) ==
    IF pk # NULL THEN {}
    ELSE UnterantragCleanFields(o) \cup UnterantragClean(o, cache)
             \cup UnterantragUnique(o, pk)

UnterantragFullClean(o, pk, cache) ==
    UnterantragCleanFields(o) \cup UnterantragClean(o, cache)
        \cup UnterantragUnique(o, pk)

-----------------------------------------------------------------------------
(* The save() transactions of Antrag, Sitzung and Unterantrag.              *)
(*                                                                         *)
(* pc: idle -> (waiting ->) numbered -> validated -> done, or failed.      *)
(* A transaction holds the row lock that its select_for_update() took      *)
(* (the row order_by("-nummer").first() returned) until it ends.           *)

IdleTx ==
    [pc |-> "idle", kind |-> "", pk |-> NULL, obj |-> <<>>, cache |-> "",
     last_nummer |-> NULL, lock |-> NULL, err |-> {}]

HasLegislatur(kind) == kind \in {"Antrag", "Sitzung"}

Table(kind) ==
    CASE kind = "Antrag" -> antraege
      [] kind = "Sitzung" -> sitzungen
      [] OTHER -> unterantraege

\* The rows the numbering query of save() filters on.
ScopeIds(kind, o) ==
    CASE kind = "Antrag" ->
             {i \in DOMAIN antraege : antraege[i].legislatur = o.legislatur}
      [] kind = "Sitzung" -> DOMAIN sitzungen
      [] OTHER ->
             {i \in DOMAIN unterantraege :
                  unterantraege[i].hauptantrag = o.hauptantrag}

ScopeKey(kind, o) ==
    CASE kind = "Antrag" -> o.legislatur
      [] kind = "Sitzung" -> NULL
      [] OTHER -> o.hauptantrag

\* order_by("-nummer").first(): the row with the highest nummer, NULL if none.
LastRow(kind, o) ==
    LET S == ScopeIds(kind, o)
    IN  IF S = {} THEN NULL
        ELSE CHOOSE i \in S :
                 \A j \in S : Table(kind)[j].nummer <= Table(kind)[i].nummer

NummerOf(kind, id) == IF id = NULL THEN NULL ELSE Table(kind)[id].nummer

Holding(u) == tx[u].pc \in {"numbered", "validated"} /\ tx[u].lock # NULL

LockedByOther(t, kind, id) ==
    \E u \in TxIds \ {t} : Holding(u) /\ tx[u].kind = kind /\ tx[u].lock = id

\* Some transaction holds or waits for the row's lock.
RowBusy(kind, id) ==
    \E u \in TxIds :
        /\ tx[u].pc \in {"waiting", "numbered", "validated"}
        /\ tx[u].kind = kind
        /\ tx[u].lock = id

\* save() taking Legislatur.objects.order_by("nummer").first(): the lowest
\* nummer.
SaveBeginOldest(t, kind, pk, o) ==
    /\ tx[t].pc = "idle"
    /\ LET latest == IF DOMAIN legislaturen = {} THEN NULL
                     ELSE CHOOSE m \in DOMAIN legislaturen :
                              \A x \in DOMAIN legislaturen : m <= x
           o1 == IF HasLegislatur(kind) /\ o.legislatur = NULL
                 THEN [o EXCEPT !.legislatur = latest] ELSE o
           base == [IdleTx EXCEPT
                       !.kind = kind, !.pk = pk, !.obj = o1,
                       !.cache = IF kind = "Unterantrag"
                                 THEN antraege[o.hauptantrag].status ELSE ""]
           last == LastRow(kind, o1)
       IN  tx' = [tx EXCEPT ![t] =
               IF HasLegislatur(kind) /\ o1.legislatur = NULL
               THEN [base EXCEPT !.pc = "failed", !.err = {"ValueError"}]
               ELSE IF o1.nummer # NULL
               THEN [base EXCEPT !.pc = "numbered"]
               ELSE IF last # NULL /\ LockedByOther(t, kind, last)
               THEN [base EXCEPT !.pc = "waiting", !.lock = last,
                                 !.last_nummer = NummerOf(kind, last)]
               ELSE [base EXCEPT !.pc = "numbered", !.lock = last,
                                 !.last_nummer = NummerOf(kind, last),
                                 !.obj = [o1 EXCEPT
                                     !.nummer = NummerOf(kind, last) + 1]]]
    /\ UNCHANGED <<stores, now, result, vergeben>>

\* save() up to and including the numbering query.
SaveBegin(t, kind, pk, o) ==
    /\ tx[t].pc = "idle"
    /\ LET latest == MaxOf(DOMAIN legislaturen)
           o1 == IF HasLegislatur(kind) /\ o.legislatur = NULL
                 THEN [o EXCEPT !.legislatur = latest] ELSE o
           base == [IdleTx EXCEPT
                       !.kind = kind, !.pk = pk, !.obj = o1,
                       !.cache = IF kind = "Unterantrag"
                                 THEN antraege[o.hauptantrag].status ELSE ""]
           last == LastRow(kind, o1)
       IN  tx' = [tx EXCEPT ![t] =
               IF HasLegislatur(kind) /\ o1.legislatur = NULL
               THEN [base EXCEPT !.pc = "failed", !.err = {"ValueError"}]
               ELSE IF o1.nummer # NULL
               THEN [base EXCEPT !.pc = "numbered"]
               ELSE IF last # NULL /\ LockedByOther(t, kind, last)
               THEN [base EXCEPT !.pc = "waiting", !.lock = last,
                                 !.last_nummer = NummerOf(kind, last)]
               ELSE [base EXCEPT !.pc = "numbered", !.lock = last,
                                 !.last_nummer = NummerOf(kind, last),
                                 !.obj = [o1 EXCEPT
                                     !.nummer = NummerOf(kind, last) + 1]]]
    /\ UNCHANGED <<stores, now, result, vergeben>>

\* The blocked numbering query gets its row lock.  What it returns then is
\* the backend's choice: the row it found when it ran (stale), or the row a
\* fresh evaluation finds.
TxAcquire(t) ==
    /\ tx[t].pc = "waiting"
    /\ ~LockedByOther(t, tx[t].kind, tx[t].lock)
    /\ \E fresh \in BOOLEAN :
        LET last == IF fresh THEN LastRow(tx[t].kind, tx[t].obj) ELSE tx[t].lock
            ln == IF fresh THEN NummerOf(tx[t].kind, last) ELSE tx[t].last_nummer
        IN  /\ last # NULL => ~LockedByOther(t, tx[t].kind, last)
            /\ tx' = [tx EXCEPT ![t].pc = "numbered", ![t].lock = last,
                                ![t].last_nummer = ln,
                                ![t].obj.nummer = ln + 1]
    /\ UNCHANGED <<stores, now, result, vergeben>>

FullClean(kind, o, pk, cache) ==
    CASE kind = "Antrag" -> AntragFullClean(o, pk)
      [] kind = "Sitzung" -> SitzungFullClean(o, pk)
      [] OTHER -> UnterantragFullClean(o, pk, cache)

\* A save() that writes its row first and validates afterwards, outside the
\* atomic block.
TxCleanAfterWrite(t) ==
    /\ tx[t].pc = "numbered"
    /\ LET kind == tx[t].kind
           id == IF tx[t].pk = NULL THEN t ELSE tx[t].pk
           errs == FullClean(kind, tx[t].obj, tx[t].pk, tx[t].cache)
       IN  /\ tx' = [tx EXCEPT
                        ![t].pc = IF errs = {} THEN "validated" ELSE "failed",
                        ![t].err = errs]
           /\ antraege' = IF kind = "Antrag"
                          THEN Put(antraege, id, tx[t].obj) ELSE antraege
           /\ sitzungen' = IF kind = "Sitzung"
                           THEN Put(sitzungen, id, tx[t].obj) ELSE sitzungen
           /\ unterantraege' = IF kind = "Unterantrag"
                               THEN Put(unterantraege, id, tx[t].obj)
                               ELSE unterantraege
    /\ UNCHANGED <<legislaturen, topnames, lesungen, now, result, vergeben>>

\* self.full_clean() inside save(); a ValidationError leaves the atomic block.
TxClean(t) ==
    /\ tx[t].pc = "numbered"
    /\ LET errs == FullClean(tx[t].kind, tx[t].obj, tx[t].pk, tx[t].cache)
       IN  tx' = [tx EXCEPT ![t].pc = IF errs = {} THEN "validated" ELSE "failed",
                            ![t].err = errs]
    /\ UNCHANGED <<stores, now, result, vergeben>>

\* A database without the unique constraints and the foreign key.
IntegrityErrorsUnchecked(kind, o, pk) == {}

\* What the database itself refuses on INSERT/UPDATE.
IntegrityErrors(kind, o, pk) ==
    CASE kind = "Antrag" -> AntragUnique(o, pk)
      [] kind = "Sitzung" -> SitzungUnique(o, pk)
      [] OTHER -> UnterantragUnique(o, pk)
                  \cup (IF o.hauptantrag \in DOMAIN antraege THEN {}
                        ELSE {"hauptantrag_id"})

\* The row super().save() writes: auto_now_add fills the timestamp on insert.
RowToWrite(kind, o, pk) ==
    IF kind = "Antrag" /\ pk = NULL
    THEN [o EXCEPT !.formell_eingereicht = Some(now)] ELSE o

\* super().save() and the commit that ends the atomic block.
TxWrite(t) ==
    /\ tx[t].pc = "validated"
    /\ LET kind == tx[t].kind
           o == tx[t].obj
           id == IF tx[t].pk = NULL THEN t ELSE tx[t].pk
           errs == IntegrityErrors(kind, o, tx[t].pk)
           row == RowToWrite(kind, o, tx[t].pk)
       IN  IF errs # {}
           THEN /\ tx' = [tx EXCEPT ![t].pc = "failed",
                                    ![t].err = {"IntegrityError"}]
                /\ UNCHANGED <<stores, vergeben>>
           ELSE /\ tx' = [tx EXCEPT ![t].pc = "done"]
                /\ antraege' = IF kind = "Antrag"
                               THEN Put(antraege, id, row) ELSE antraege
                /\ sitzungen' = IF kind = "Sitzung"
                                THEN Put(sitzungen, id, row) ELSE sitzungen
                /\ unterantraege' = IF kind = "Unterantrag"
                                    THEN Put(unterantraege, id, row)
                                    ELSE unterantraege
                /\ vergeben' = IF tx[t].pk = NULL
                               THEN vergeben \cup
                                    {<<kind, ScopeKey(kind, o), o.nummer, id>>}
                               ELSE vergeben
                /\ UNCHANGED <<legislaturen, topnames, lesungen>>
    /\ UNCHANGED <<now, result>>

-----------------------------------------------------------------------------
(* Deleting through the admin site; ForeignKeys are on_delete=CASCADE.      *)

UnterantraegeOf(a) ==
    {u \in DOMAIN unterantraege : unterantraege[u].hauptantrag = a}

LesungenOfAntrag(a) == {l \in DOMAIN lesungen : lesungen[l].antrag = a}

LesungenOfSitzung(s) == {l \in DOMAIN lesungen : lesungen[l].sitzung = s}

DeleteAntrag(a) ==
    /\ a \in DOMAIN antraege
    /\ ~RowBusy("Antrag", a)
    /\ \A u \in UnterantraegeOf(a) : ~RowBusy("Unterantrag", u)
    /\ antraege' = Drop(antraege, {a})
    /\ unterantraege' = Drop(unterantraege, UnterantraegeOf(a))
    /\ lesungen' = Drop(lesungen, LesungenOfAntrag(a))
    /\ UNCHANGED <<legislaturen, topnames, sitzungen, tx, now, result, vergeben>>

DeleteSitzung(s) ==
    /\ s \in DOMAIN sitzungen
    /\ ~RowBusy("Sitzung", s)
    /\ sitzungen' = Drop(sitzungen, {s})
    /\ lesungen' = Drop(lesungen, LesungenOfSitzung(s))
    /\ UNCHANGED <<legislaturen, topnames, antraege, unterantraege, tx, now, result,
                   vergeben>>

DeleteUnterantrag(u) ==
    /\ u \in DOMAIN unterantraege
    /\ ~RowBusy("Unterantrag", u)
    /\ unterantraege' = Drop(unterantraege, {u})
    /\ UNCHANGED <<legislaturen, topnames, antraege, sitzungen, lesungen, tx, now,
                   result, vergeben>>

-----------------------------------------------------------------------------
(* Antrag lifecycle: make_angenommen / make_abgelehnt.  save() finds        *)
(* legislatur and nummer set, validates and updates the row.               *)

MakeStatus(op, a, s) ==
    /\ a \in DOMAIN antraege
    /\ ~RowBusy("Antrag", a)
    /\ LET o == [antraege[a] EXCEPT !.status = s]
           errs == AntragFullClean(o, a)
       IN  /\ antraege' = IF errs = {} THEN Put(antraege, a, o) ELSE antraege
           /\ result' = [op |-> op, target |-> a, obj |-> <<>>,
                         ok |-> errs = {}, err |-> errs]
    /\ UNCHANGED <<legislaturen, topnames, unterantraege, sitzungen, lesungen, tx, now,
                   vergeben>>

make_angenommen(a) == MakeStatus("make_angenommen", a, "A")

make_abgelehnt(a) == MakeStatus("make_abgelehnt", a, "N")

-----------------------------------------------------------------------------
(* Lesung: properties, validation and save()                                *)

default_prio(a) ==
    IF will_orgsatzung_aendern(a) THEN 300
    ELSE IF is_soantrag(a) THEN 400
    ELSE IF is_finanzantrag(a) THEN 500
    ELSE 700

LesungIsFuture(o) == o.status \in {"AV", "NN", "T"}

\* is_past that also holds for a Lesung kept as Tischvorlage.
LesungIsPastOderTischvorlage(o) ==
    o.status \in {"E", "V", "ZV", "B", "A", "NT", "T"}

LesungIsPast(o) == o.status \in {"E", "V", "ZV", "B", "A", "NT"}

\* Lesung.objects.filter(antrag=o.antrag, status=st,
\*                       sitzung__nummer__lt=o.sitzung.nummer)
VorherigeLesungen(o, st) ==
    {l \in DOMAIN lesungen :
        /\ lesungen[l].antrag = o.antrag
        /\ lesungen[l].status = st
        /\ sitzungen[lesungen[l].sitzung].nummer < sitzungen[o.sitzung].nummer}

LesungCleanFields(o) ==
    (IF o.status \notin lesungresultchoices THEN {"status"} ELSE {})
    \cup (IF o.prio # None /\ o.prio[1] < 0 THEN {"prio"} ELSE {})
    \cup (IF o.antrag \in DOMAIN antraege THEN {} ELSE {"antrag"})
    \cup (IF o.sitzung \in DOMAIN sitzungen THEN {} ELSE {"sitzung"})

\* Lesung.clean without .exclude(pk=self.pk) in its query for a Lesung
\* already voted.
LesungCleanCountingItself(o, pk) ==
    LET a == antraege[o.antrag]
        s == sitzungen[o.sitzung]
    IN  IF s.legislatur # a.legislatur THEN {"legislatur"}
        ELSE IF VorherigeLesungen(o, "A") # {} THEN {"bereits_abgestimmt"}
        ELSE IF s.anfang < a.formell_eingereicht[1] THEN {"sitzung"}
        ELSE IF a.orgsatzungsaenderung /\ o.dringlichkeit_beantragt
        THEN {"orgsatzung_dringlich"}
        ELSE IF o.dringlichkeit_beantragt /\ o.abstimmbar
        THEN {"dringlichkeit_beantragt"}
        ELSE IF s.anfang > now /\ ~LesungIsFuture(o) THEN {"status"}
        ELSE IF s.ende # None /\ s.ende[1] < now /\ ~LesungIsPast(o)
        THEN {"status"}
        ELSE {}

\* Lesung.clean without its first rule, that Sitzung and Antrag lie in the
\* same Legislatur.
LesungCleanOhneLegislatur(o, pk) ==
    LET a == antraege[o.antrag]
        s == sitzungen[o.sitzung]
    IN  IF VorherigeLesungen(o, "A") \ {pk} # {}
        THEN {"bereits_abgestimmt"}
        ELSE IF s.anfang < a.formell_eingereicht[1] THEN {"sitzung"}
        ELSE IF a.orgsatzungsaenderung /\ o.dringlichkeit_beantragt
        THEN {"orgsatzung_dringlich"}
        ELSE IF o.dringlichkeit_beantragt /\ o.abstimmbar
        THEN {"dringlichkeit_beantragt"}
        ELSE IF s.anfang > now /\ ~LesungIsFuture(o) THEN {"status"}
        ELSE IF s.ende # None /\ s.ende[1] < now /\ ~LesungIsPast(o)
        THEN {"status"}
        ELSE {}

\* Lesung.clean: raises on the first rule that fails.  The errors that carry
\* no field name are told apart by what they say.
LesungClean(o, pk) ==
    LET a == antraege[o.antrag]
        s == sitzungen[o.sitzung]
    IN  IF s.legislatur # a.legislatur THEN {"legislatur"}
        ELSE IF VorherigeLesungen(o, "A") \ {pk} # {}
        THEN {"bereits_abgestimmt"}
        ELSE IF s.anfang < a.formell_eingereicht[1] THEN {"sitzung"}
        ELSE IF a.orgsatzungsaenderung /\ o.dringlichkeit_beantragt
        THEN {"orgsatzung_dringlich"}
        ELSE IF o.dringlichkeit_beantragt /\ o.abstimmbar
        THEN {"dringlichkeit_beantragt"}
        ELSE IF s.anfang > now /\ ~LesungIsFuture(o) THEN {"status"}
        ELSE IF s.ende # None /\ s.ende[1] < now /\ ~LesungIsPast(o)
        THEN {"status"}
        ELSE {}

\* unique_together (antrag, sitzung)
LesungUnique(o, pk) ==
    IF \E l \in DOMAIN lesungen \ {pk} :
           lesungen[l].antrag = o.antrag /\ lesungen[l].sitzung = o.sitzung
    THEN {"unique_together"} ELSE {}

\* full_clean() as the admin form and mark_lesung_erfolgreich run it.
LesungFullClean(o, pk) ==
    LET f == LesungCleanFields(o)
    IN  IF f \cap {"antrag", "sitzung"} # {} THEN f
        ELSE f \cup LesungClean(o, pk) \cup LesungUnique(o, pk)

\* The row Lesung.save() writes: abstimmbar recomputed, prio defaulted.
LesungSaved(o) ==
    [o EXCEPT
        !.abstimmbar = Cardinality(VorherigeLesungen(o, "E"))
                           >= antraege[o.antrag].minlesungen - 1,
        !.prio = IF o.prio = None \/ o.prio[1] = 0
                 THEN Some(default_prio(antraege[o.antrag])) ELSE o.prio]

NewLesungId == MaxOf(DOMAIN lesungen) + 1

\* One request that builds or loads a Lesung, optionally validates it and
\* calls save(): validate says whether full_clean() runs first.
LesungRequest(op, pk, o, validate) ==
    LET id == IF pk = NULL THEN NewLesungId ELSE pk
        errs == IF validate THEN LesungFullClean(o, id)
                ELSE IF LesungUnique(o, id) # {} THEN {"IntegrityError"}
                ELSE {}
    IN  /\ lesungen' = IF errs = {} THEN Put(lesungen, id, LesungSaved(o))
                       ELSE lesungen
        /\ result' = [op |-> op, target |-> pk, obj |-> o, ok |-> errs = {},
                      err |-> errs]
        /\ UNCHANGED <<legislaturen, topnames, antraege, unterantraege, sitzungen, tx,
                       now, vergeben>>

LifeStatusInputs == {"NN", "A"}

\* What the add form can submit.
LesungAddInputs ==
    {[antrag |-> a, sitzung |-> s, status |-> st, abstimmbar |-> FALSE,
      dringlichkeit_beantragt |-> FALSE, prio |-> None] :
        a \in DOMAIN antraege, s \in DOMAIN sitzungen,
        st \in LifeStatusInputs}

\* What the change form of a stored Lesung can submit: status or sitzung
\* edited.
LesungChangeInputs(l) ==
    {[lesungen[l] EXCEPT !.sitzung = s, !.status = st] :
        s \in DOMAIN sitzungen, st \in LifeStatusInputs}

\* The admin site's add form for Lesung: full_clean(), then save().
LesungAdminAdd ==
    /\ Cardinality(DOMAIN lesungen) < MaxLesungen
    /\ \E o \in LesungAddInputs : LesungRequest("lesung_add", NULL, o, TRUE)

\* The admin site's change form: full_clean(), then save().
LesungAdminChange(l) ==
    /\ l \in DOMAIN lesungen
    /\ \E o \in LesungChangeInputs(l) :
          LesungRequest("lesung_change", l, o, TRUE)

\* Admin action on one selected Lesung.
mark_lesung_erfolgreich(l) ==
    /\ l \in DOMAIN lesungen
    /\ LesungRequest("mark_lesung_erfolgreich", l,
                     [lesungen[l] EXCEPT !.status = "E"], TRUE)

\* Admin action on one selected Lesung: save() without full_clean().
mark_lesung_wegen_ende_vertagt(l) ==
    /\ l \in DOMAIN lesungen
    /\ LesungRequest("mark_lesung_wegen_ende_vertagt", l,
                     [lesungen[l] EXCEPT !.status = "ZV"], FALSE)

\* antrag_angenommen / antrag_abgelehnt: status "A" is set on the Lesung
\* instance, which is not saved; the Antrag is saved through make_*.
LesungDecides(op, l, s) ==
    /\ l \in DOMAIN lesungen
    /\ LET a == lesungen[l].antrag
           o == [antraege[a] EXCEPT !.status = s]
           errs == AntragFullClean(o, a)
       IN  /\ antraege' = IF errs = {} THEN Put(antraege, a, o) ELSE antraege
           /\ result' = [op |-> op, target |-> l, obj |-> <<>>,
                         ok |-> errs = {}, err |-> errs]
    /\ UNCHANGED <<legislaturen, topnames, unterantraege, sitzungen, lesungen, tx, now,
                   vergeben>>

antrag_angenommen(l) == LesungDecides("antrag_angenommen", l, "A")

antrag_abgelehnt(l) == LesungDecides("antrag_abgelehnt", l, "N")

Tick ==
    /\ now < MaxNow
    /\ now' = now + 1
    /\ UNCHANGED <<stores, tx, result, vergeben>>

-----------------------------------------------------------------------------
(* Numbering: concurrent creations, edits and deletions on an empty store.  *)

BaseAntrag ==
    [legislatur |-> NULL, nummer |-> NULL, status |-> "B", typ |-> "A",
     minlesungen |-> 1, antragssumme |-> None, haushaltsposten |-> "",
     orgsatzungsaenderung |-> FALSE, synopse |-> FALSE, titel |-> "T",
     formell_eingereicht |-> None]

\* typ "F" without a sum does not validate.
NumAntragInputs ==
    {[BaseAntrag EXCEPT !.legislatur = l, !.typ = ty] :
        l \in {NULL} \cup DOMAIN legislaturen, ty \in {"A", "F"}}

\* An ende before anfang does not validate.
NumSitzungInputs ==
    {[legislatur |-> NULL, nummer |-> NULL, anfang |-> now, ende |-> e,
      ort |-> "Raum"] : e \in {None, Some(now - 1)}}

NumUnterantragInputs ==
    {[hauptantrag |-> a, nummer |-> NULL, titel |-> ti, status |-> "B"] :
        a \in DOMAIN antraege, ti \in {"T", ""}}

SaveAntrag(t) == \E o \in NumAntragInputs : SaveBegin(t, "Antrag", NULL, o)

SaveSitzung(t) == \E o \in NumSitzungInputs : SaveBegin(t, "Sitzung", NULL, o)

SaveUnterantrag(t) ==
    \E o \in NumUnterantragInputs : SaveBegin(t, "Unterantrag", NULL, o)

EditUnterantrag(t) ==
    \E u \in DOMAIN unterantraege, ti \in {"T", "U"} :
        /\ unterantraege[u].hauptantrag \in DOMAIN antraege
        /\ SaveBegin(t, "Unterantrag", u, [unterantraege[u] EXCEPT !.titel = ti])

\* The rows already stored when the requests arrive: Antrag 2/1 with one
\* Unterantrag, and Sitzung 1; Legislatur 1 holds nothing yet.
SeedId == MaxTx + 1

InitNum ==
    /\ legislaturen = [l \in {1, 2} |->
                          [anfangsdatum |-> l - 1, enddatum |-> l]]
    /\ now = TicksPerDay
    /\ antraege = [i \in {SeedId} |->
                      [BaseAntrag EXCEPT !.legislatur = 2, !.nummer = 1,
                                         !.formell_eingereicht = Some(now)]]
    /\ unterantraege = [i \in {SeedId} |->
                           [hauptantrag |-> SeedId, nummer |-> 1,
                            titel |-> "T", status |-> "B"]]
    /\ sitzungen = [i \in {SeedId} |->
                       [legislatur |-> 2, nummer |-> 1, anfang |-> now,
                        ende |-> None, ort |-> "Raum"]]
    /\ lesungen = <<>>
    /\ topnames = <<>>
    /\ tx = [t \in TxIds |-> IdleTx]
    /\ result = NoResult
    /\ vergeben = {<<"Antrag", 2, 1, SeedId>>, <<"Sitzung", NULL, 1, SeedId>>,
                   <<"Unterantrag", SeedId, 1, SeedId>>}

NextNum ==
    \/ \E t \in TxIds :
          \/ SaveAntrag(t)
          \/ SaveSitzung(t)
          \/ SaveUnterantrag(t)
          \/ TxAcquire(t)
          \/ TxClean(t)
          \/ TxWrite(t)
    \/ \E a \in DOMAIN antraege : DeleteAntrag(a)
    \/ \E s \in DOMAIN sitzungen : DeleteSitzung(s)
    \/ \E u \in DOMAIN unterantraege : DeleteUnterantrag(u)

SpecNum == InitNum /\ [][NextNum]_vars

\* Unteranträge being created and edited while their Hauptantrag is decided.
NextSub ==
    \/ \E t \in TxIds :
          \/ SaveUnterantrag(t)
          \/ EditUnterantrag(t)
          \/ TxAcquire(t)
          \/ TxClean(t)
          \/ TxWrite(t)
    \/ \E a \in DOMAIN antraege :
          \/ make_angenommen(a)
          \/ make_abgelehnt(a)

SpecSub == InitNum /\ [][NextSub]_vars

-----------------------------------------------------------------------------
(* Lifecycle: Lesungen of two Anträge over the Sitzungen of a Legislatur.   *)

\* Legislatur 1 with Sitzung 1 (tick 1) and Sitzung 2 (from tick 2, no end
\* yet); Sitzung 3 lies in Legislatur 2.  Antrag 1/1 needs two Lesungen,
\* Antrag 1/2 one.
InitLife ==
    /\ legislaturen = [l \in {1, 2} |->
                          [anfangsdatum |-> 3 * (l - 1),
                           enddatum |-> 3 * l - 1]]
    /\ now = 0
    /\ antraege = [i \in {1, 2} |->
                      [BaseAntrag EXCEPT !.legislatur = 1, !.nummer = i,
                                         !.minlesungen = 3 - i,
                                         !.formell_eingereicht = Some(0)]]
    /\ unterantraege = <<>>
    /\ sitzungen = [i \in {1, 2, 3} |->
                       [legislatur |-> IF i = 3 THEN 2 ELSE 1, nummer |-> i,
                        anfang |-> IF i = 3 THEN 3 * TicksPerDay ELSE i,
                        ende |-> IF i = 1 THEN Some(1) ELSE None,
                        ort |-> "Raum"]]
    /\ lesungen = <<>>
    /\ topnames = <<>>
    /\ tx = [t \in TxIds |-> IdleTx]
    /\ result = NoResult
    /\ vergeben = {}

\* Every operation that writes a Lesung.
NextLesung ==
    \/ LesungAdminAdd
    \/ \E l \in DOMAIN lesungen :
          \/ LesungAdminChange(l)
          \/ mark_lesung_erfolgreich(l)
          \/ mark_lesung_wegen_ende_vertagt(l)
    \/ Tick

SpecLesung == InitLife /\ [][NextLesung]_vars

\* Lesungen are scheduled and the Anträge decided, in a Lesung or directly.
NextLife ==
    \/ LesungAdminAdd
    \/ \E l \in DOMAIN lesungen :
          \/ antrag_angenommen(l)
          \/ antrag_abgelehnt(l)
    \/ \E a \in DOMAIN antraege :
          \/ make_angenommen(a)
          \/ make_abgelehnt(a)
    \/ Tick

SpecLife == InitLife /\ [][NextLife]_vars

-----------------------------------------------------------------------------
(* Legislaturen: saves that name no Legislatur, with none, one or two       *)
(* Legislaturen stored, today or after the last one has ended.              *)

\* LegislaturAdmin's add form: the next Legislatur, one day after the last.
AddLegislatur ==
    /\ Cardinality(DOMAIN legislaturen) < MaxLegislaturen
    /\ LET n == Cardinality(DOMAIN legislaturen) + 1
       IN  legislaturen' = Put(legislaturen, n,
                               [anfangsdatum |-> n - 1, enddatum |-> n])
    /\ UNCHANGED <<antraege, unterantraege, sitzungen, lesungen, topnames,
                   tx, now, result, vergeben>>

\* Anträge submitted without a Legislatur.
OhneLegislaturInputs == {[BaseAntrag EXCEPT !.typ = ty] : ty \in {"A", "F"}}

SaveAntragOhneLegislatur(t) ==
    \E o \in OhneLegislaturInputs : SaveBegin(t, "Antrag", NULL, o)

\* Either nothing is stored, or Legislaturen 1 and 2 with Antrag 1/1 and
\* Sitzung 1, both of Legislatur 1; it is day 1, or day 3 when Legislatur 2
\* has ended.
InitPeriod ==
    /\ legislaturen \in {<<>>, [l \in {1, 2} |->
                                  [anfangsdatum |-> l - 1, enddatum |-> l]]}
    /\ now \in {TicksPerDay, 3 * TicksPerDay}
    /\ antraege = IF legislaturen = <<>> THEN <<>>
                  ELSE [i \in {SeedId} |->
                           [BaseAntrag EXCEPT
                               !.legislatur = 1, !.nummer = 1,
                               !.formell_eingereicht = Some(TicksPerDay)]]
    /\ unterantraege = <<>>
    /\ sitzungen = IF legislaturen = <<>> THEN <<>>
                   ELSE [i \in {SeedId} |->
                            [legislatur |-> 1, nummer |-> 1,
                             anfang |-> TicksPerDay, ende |-> None,
                             ort |-> "Raum"]]
    /\ lesungen = <<>>
    /\ topnames = <<>>
    /\ tx = [t \in TxIds |-> IdleTx]
    /\ result = NoResult
    /\ vergeben = IF legislaturen = <<>> THEN {}
                  ELSE {<<"Antrag", 1, 1, SeedId>>,
                        <<"Sitzung", NULL, 1, SeedId>>}

NextPeriod ==
    \/ \E t \in TxIds :
          \/ SaveAntragOhneLegislatur(t)
          \/ SaveSitzung(t)
          \/ TxAcquire(t)
          \/ TxClean(t)
          \/ TxWrite(t)
    \/ AddLegislatur

SpecPeriod == InitPeriod /\ [][NextPeriod]_vars

-----------------------------------------------------------------------------
(* Validation of an Antrag over the values its fields can take.             *)

\* Anträge as create and change forms hand them to full_clean():
\* formell_eingereicht is unset on creation, and on a change is the stored
\* timestamp, inside or outside the Legislatur's dates.
CleanAntragInputs ==
    {[BaseAntrag EXCEPT !.legislatur = 2, !.typ = ty, !.antragssumme = su,
                        !.haushaltsposten = hp, !.orgsatzungsaenderung = og,
                        !.synopse = sy, !.formell_eingereicht = fe] :
        ty \in typchoices, su \in {None, Some(-1), Some(0), Some(5)},
        hp \in {"", "HP"}, og \in BOOLEAN, sy \in BOOLEAN,
        fe \in {None, Some(now), Some(3 * TicksPerDay)}}

\* full_clean() of one such Antrag, as save() runs it.
ValidateAntrag ==
    /\ \E o \in CleanAntragInputs :
          result' = [op |-> "antrag_full_clean", target |-> NULL, obj |-> o,
                     ok |-> AntragFullClean(o, NULL) = {},
                     err |-> AntragFullClean(o, NULL)]
    /\ UNCHANGED <<stores, tx, now, vergeben>>

NextValidate == ValidateAntrag

SpecValidate == InitNum /\ [][NextValidate]_vars

-----------------------------------------------------------------------------
(* Uniqueness: Anträge, Unteranträge and Lesungen created concurrently.     *)

\* The add form of LesungAdmin in two steps, so that requests interleave:
\* first the form's full_clean() ...
LesungFormClean(t) ==
    /\ tx[t].pc = "idle"
    /\ \E o \in LesungAddInputs :
          LET errs == LesungFullClean(o, NewLesungId)
          IN  tx' = [tx EXCEPT ![t] =
                  [IdleTx EXCEPT
                      !.kind = "Lesung", !.obj = o, !.err = errs,
                      !.pc = IF errs = {} THEN "form_valid" ELSE "failed"]]
    /\ UNCHANGED <<stores, now, result, vergeben>>

\* ... then save(), where the database checks unique_together.
LesungFormSave(t) ==
    /\ tx[t].pc = "form_valid"
    /\ IF LesungUnique(tx[t].obj, NewLesungId) # {}
       THEN /\ tx' = [tx EXCEPT ![t].pc = "failed",
                                ![t].err = {"IntegrityError"}]
            /\ UNCHANGED lesungen
       ELSE /\ tx' = [tx EXCEPT ![t].pc = "done"]
            /\ lesungen' = Put(lesungen, NewLesungId, LesungSaved(tx[t].obj))
    /\ UNCHANGED <<legislaturen, topnames, antraege, unterantraege, sitzungen, now,
                   result, vergeben>>

NextUnique ==
    \E t \in TxIds :
        \/ SaveAntrag(t)
        \/ SaveUnterantrag(t)
        \/ TxAcquire(t)
        \/ TxClean(t)
        \/ TxWrite(t)
        \/ LesungFormClean(t)
        \/ LesungFormSave(t)

SpecUnique == InitNum /\ [][NextUnique]_vars

-----------------------------------------------------------------------------
(* Agenda: buildTOPs groups the Lesungen of a Sitzung into blocks.          *)

LesungenIn(s) == {l \in DOMAIN lesungen : lesungen[l].sitzung = s}

PrioOf(l) == lesungen[l].prio[1]

EingereichtOf(l) == antraege[lesungen[l].antrag].formell_eingereicht[1]

\* order_by("-prio", "antrag__formell_eingereicht").
OrderByLeqPrioAbsteigend(l, m) ==
    \/ PrioOf(l) > PrioOf(m)
    \/ PrioOf(l) = PrioOf(m) /\ EingereichtOf(l) <= EingereichtOf(m)

\* order_by("prio", "-antrag__formell_eingereicht").
OrderByLeqNeuesteZuerst(l, m) ==
    \/ PrioOf(l) < PrioOf(m)
    \/ PrioOf(l) = PrioOf(m) /\ EingereichtOf(l) >= EingereichtOf(m)

\* order_by("prio", "antrag__formell_eingereicht"): l sorts before or with m.
OrderByLeq(l, m) ==
    \/ PrioOf(l) < PrioOf(m)
    \/ PrioOf(l) = PrioOf(m) /\ EingereichtOf(l) <= EingereichtOf(m)

\* The orders in which the queryset can yield the Lesungen of Sitzung s: the
\* database is free in the order of rows with equal prio and timestamp.
SortedLesungen(s) ==
    LET S == LesungenIn(s)
    IN  {q \in [1..Cardinality(S) -> S] :
            /\ \A i, j \in DOMAIN q : i # j => q[i] # q[j]
            /\ \A i, j \in DOMAIN q : i < j => OrderByLeq(q[i], q[j])}

\* topnames_by_prio: prio -> name, of the TOPnames of Sitzung s.
topnames_by_prio(s) == IF s \in DOMAIN topnames THEN topnames[s] ELSE <<>>

\* "TOP " + name, or the fallback naming the prio; a string as its parts.
Titel(names, p) ==
    IF p \in DOMAIN names THEN <<"TOP ", names[p]>>
    ELSE <<"TOP ", "Erster TOP (Prio ", p, ")">>

\* One pass of the loop that opens a block at every change of prio.
buildTOPsStepJedePrio(st, l, names) ==
    LET changed == st.current_priority # Some(PrioOf(l))
        g == IF changed
             THEN Append(st.grouped,
                         [prio |-> PrioOf(l), titel |-> Titel(names, PrioOf(l)),
                          lesungen |-> <<>>])
             ELSE st.grouped
    IN  [grouped |-> [g EXCEPT ![Len(g)].lesungen = Append(@, l)],
         current_priority |-> Some(PrioOf(l))]

\* One pass of the loop over the sorted Lesungen.  top_counter is counted
\* but goes into no block.
buildTOPsStep(st, l, names) ==
    LET changed == st.current_priority # Some(PrioOf(l))
        opens == changed /\ (PrioOf(l) \in DOMAIN names \/ st.grouped = <<>>)
        g == IF opens
             THEN Append(st.grouped,
                         [prio |-> PrioOf(l), titel |-> Titel(names, PrioOf(l)),
                          lesungen |-> <<>>])
             ELSE st.grouped
    IN  [grouped |-> [g EXCEPT ![Len(g)].lesungen = Append(@, l)],
         current_priority |-> Some(PrioOf(l)),
         top_counter |-> IF opens THEN st.top_counter + 1
                         ELSE st.top_counter]

\* buildTOPs for the Lesungen in the order q and the names of their Sitzung.
buildTOPs(q, names) ==
    LET loop[i \in 0..Len(q)] ==
            IF i = 0
            THEN [grouped |-> <<>>, current_priority |-> None,
                  top_counter |-> 0]
            ELSE buildTOPsStep(loop[i - 1], q[i], names)
    IN  loop[Len(q)].grouped

\* The view that shows the agenda of Sitzung s.
ShowTOPs(s) ==
    /\ \E q \in SortedLesungen(s) :
          result' = [op |-> "buildTOPs", target |-> s,
                     obj |-> [lesungen |-> q,
                              grouped |-> buildTOPs(q, topnames_by_prio(s))],
                     ok |-> TRUE, err |-> {}]
    /\ UNCHANGED <<stores, tx, now, vergeben>>

TOPPrios == {300, 500, 700}

TOPNamen == [p \in TOPPrios |->
                CASE p = 300 -> "Satzung" [] p = 500 -> "Finanzen"
                  [] OTHER -> "Sonstiges"]

\* Sitzung 1 with any of the Anträge 1..4 on it, each Lesung with a prio of
\* TOPPrios, and any of the three names; Sitzung 2 with one Lesung and all
\* names.  Anträge 2 and 3 were submitted at the same time.
InitTOP ==
    /\ legislaturen = [l \in {1} |-> [anfangsdatum |-> 0, enddatum |-> 3]]
    /\ now = 2
    /\ antraege = [i \in 1..4 |->
                      [BaseAntrag EXCEPT
                          !.legislatur = 1, !.nummer = i, !.minlesungen = 2,
                          !.formell_eingereicht = Some(i \div 2)]]
    /\ unterantraege = <<>>
    /\ sitzungen = [i \in {1, 2} |->
                       [legislatur |-> 1, nummer |-> i, anfang |-> 3 + i,
                        ende |-> None, ort |-> "Raum"]]
    /\ \E D \in SUBSET (1..4) : \E pr \in [D -> TOPPrios] :
          lesungen = [i \in D \cup {5} |->
                         [antrag |-> IF i = 5 THEN 1 ELSE i,
                          sitzung |-> IF i = 5 THEN 2 ELSE 1,
                          status |-> "NN", abstimmbar |-> FALSE,
                          dringlichkeit_beantragt |-> FALSE,
                          prio |-> Some(IF i = 5 THEN 300 ELSE pr[i])]]
    /\ \E N \in SUBSET TOPPrios :
          topnames = [s \in {1, 2} |->
                         [p \in (IF s = 1 THEN N ELSE TOPPrios) |->
                             TOPNamen[p]]]
    /\ tx = [t \in TxIds |-> IdleTx]
    /\ result = NoResult
    /\ vergeben = {}

NextTOP == \E s \in DOMAIN sitzungen : ShowTOPs(s)

SpecTOP == InitTOP /\ [][NextTOP]_vars

-----------------------------------------------------------------------------
(* Readings: one Lesung scheduled through the add form, with every status,  *)
(* urgency and prio the form can submit, before, during and after the       *)
(* Sitzungen.                                                               *)

ReadingPrios == {None, Some(0), Some(250)}

\* What the add form of LesungAdmin can submit; abstimmbar is not editable
\* and starts from its default.
ReadingInputs ==
    {[antrag |-> a, sitzung |-> s, status |-> st, abstimmbar |-> FALSE,
      dringlichkeit_beantragt |-> d, prio |-> p] :
        a \in DOMAIN antraege, s \in DOMAIN sitzungen,
        st \in lesungresultchoices, d \in BOOLEAN, p \in ReadingPrios}

\* The first Lesung is added: full_clean(), then save().
ReadingAdd ==
    /\ lesungen = <<>>
    /\ \E o \in ReadingInputs : LesungRequest("lesung_add", NULL, o, TRUE)

\* Legislatur 1 with Sitzung 1 (tick 1) and Sitzung 2 (from tick 2, no end
\* yet); Sitzung 3 lies in Legislatur 2.  Antrag 1 changes the
\* Organisationssatzung, Antrag 2 is another Satzungsantrag, Antrag 3 a
\* Finanzantrag, Antrag 4 an Antrag of no special kind.
InitReading ==
    /\ legislaturen = [l \in {1, 2} |->
                          [anfangsdatum |-> 3 * (l - 1),
                           enddatum |-> 3 * l - 1]]
    /\ now \in 0..MaxNow
    /\ antraege =
          [i \in 1..4 |->
              [BaseAntrag EXCEPT
                  !.legislatur = 1, !.nummer = i,
                  !.typ = CASE i \in {1, 2} -> "S" [] i = 3 -> "F"
                            [] OTHER -> "A",
                  !.orgsatzungsaenderung = (i = 1),
                  !.antragssumme = IF i = 3 THEN Some(5) ELSE None,
                  !.haushaltsposten = IF i = 3 THEN "HP" ELSE "",
                  !.minlesungen = IF i \in {1, 4} THEN 2 ELSE 1,
                  !.formell_eingereicht = Some(0)]]
    /\ unterantraege = <<>>
    /\ sitzungen = [i \in {1, 2, 3} |->
                       [legislatur |-> IF i = 3 THEN 2 ELSE 1, nummer |-> i,
                        anfang |-> IF i = 3 THEN 3 * TicksPerDay ELSE i,
                        ende |-> IF i = 1 THEN Some(1) ELSE None,
                        ort |-> "Raum"]]
    /\ lesungen = <<>>
    /\ topnames = <<>>
    /\ tx = [t \in TxIds |-> IdleTx]
    /\ result = NoResult
    /\ vergeben = {}

NextReading ==
    \/ ReadingAdd
    \/ \E l \in DOMAIN lesungen : mark_lesung_erfolgreich(l)

SpecReading == InitReading /\ [][NextReading]_vars

-----------------------------------------------------------------------------
(* Dates: Sitzungen are created and edited while the admin site adds and    *)
(* edits Legislaturen.                                                      *)

LegislaturDays == {0, 2}

\* Model.clean_fields for Legislatur; the model defines no clean().
LegislaturCleanFields(o) ==
    IF o.nummer < 1 \/ o.nummer > 1000 THEN {"nummer"} ELSE {}

\* The primary key is unique.
LegislaturUnique(o) ==
    IF o.nummer \in DOMAIN legislaturen THEN {"nummer"} ELSE {}

\* LegislaturAdmin's add form: full_clean(), then save().
LegislaturAdminAdd ==
    \E n \in 1..MaxLegislaturen, a \in LegislaturDays, e \in LegislaturDays :
        LET o == [nummer |-> n, anfangsdatum |-> a, enddatum |-> e]
            errs == LegislaturCleanFields(o) \cup LegislaturUnique(o)
        IN  /\ legislaturen' =
                  IF errs = {}
                  THEN Put(legislaturen, n,
                           [anfangsdatum |-> a, enddatum |-> e])
                  ELSE legislaturen
            /\ result' = [op |-> "legislatur_add", target |-> n, obj |-> o,
                          ok |-> errs = {}, err |-> errs]
            /\ UNCHANGED <<antraege, unterantraege, sitzungen, lesungen,
                           topnames, tx, now, vergeben>>

\* LegislaturAdmin's change form, the dates edited.
LegislaturAdminChange(l) ==
    /\ l \in DOMAIN legislaturen
    /\ \E a \in LegislaturDays, e \in LegislaturDays :
        LET o == [nummer |-> l, anfangsdatum |-> a, enddatum |-> e]
            errs == LegislaturCleanFields(o)
        IN  /\ legislaturen' =
                  IF errs = {}
                  THEN Put(legislaturen, l,
                           [anfangsdatum |-> a, enddatum |-> e])
                  ELSE legislaturen
            /\ result' = [op |-> "legislatur_change", target |-> l, obj |-> o,
                          ok |-> errs = {}, err |-> errs]
            /\ UNCHANGED <<antraege, unterantraege, sitzungen, lesungen,
                           topnames, tx, now, vergeben>>

\* Sitzungen today or after the last Legislatur, open or ending before they
\* begin.
TerminSitzungInputs ==
    {[legislatur |-> NULL, nummer |-> NULL, anfang |-> a, ende |-> e,
      ort |-> "Raum"] :
        a \in {now, 3 * TicksPerDay}, e \in {None, Some(now - 1)}}

SaveSitzungTermin(t) ==
    \E o \in TerminSitzungInputs : SaveBegin(t, "Sitzung", NULL, o)

\* SitzungAdmin's change form, anfang and ende edited.
EditSitzungTermin(t) ==
    \E s \in DOMAIN sitzungen, o \in TerminSitzungInputs :
        SaveBegin(t, "Sitzung", s,
                  [sitzungen[s] EXCEPT !.anfang = o.anfang, !.ende = o.ende])

NextTermine ==
    \/ \E t \in TxIds :
          \/ SaveSitzungTermin(t)
          \/ EditSitzungTermin(t)
          \/ TxAcquire(t)
          \/ TxClean(t)
          \/ TxWrite(t)
    \/ LegislaturAdminAdd
    \/ \E l \in DOMAIN legislaturen : LegislaturAdminChange(l)

SpecTermine == InitNum /\ [][NextTermine]_vars

-----------------------------------------------------------------------------
(* Retry: a caller whose Antrag.save() failed validation corrects the       *)
(* instance and calls save() on it again, while other Anträge are created.  *)

\* save() called again on the instance of a creation that failed validation,
\* its typ corrected.  The instance still carries the legislatur and the
\* nummer the failed call set on it, so save() runs neither the Legislatur
\* lookup nor the numbering query and goes on to full_clean().
SaveAntragAgain(t) ==
    /\ tx[t].pc = "failed"
    /\ tx[t].kind = "Antrag"
    /\ tx[t].pk = NULL
    /\ tx[t].err # {}
    /\ tx[t].err \cap {"IntegrityError", "ValueError"} = {}
    /\ LET o == [tx[t].obj EXCEPT !.typ = "A"]
       IN  /\ o.legislatur # NULL
           /\ o.nummer # NULL
           /\ tx' = [tx EXCEPT ![t] =
                  [IdleTx EXCEPT !.kind = "Antrag", !.obj = o,
                                 !.pc = "numbered"]]
           /\ result' = [op |-> "save_again", target |-> t,
                         obj |-> [antrag |-> o,
                                  last_nummer |->
                                      NummerOf("Antrag", LastRow("Antrag", o))],
                         ok |-> TRUE, err |-> {}]
    /\ UNCHANGED <<stores, now, vergeben>>

NextRetry ==
    \E t \in TxIds :
        \/ SaveAntrag(t)
        \/ SaveAntragAgain(t)
        \/ TxAcquire(t)
        \/ TxClean(t)
        \/ TxWrite(t)

SpecRetry == InitNum /\ [][NextRetry]_vars

-----------------------------------------------------------------------------
(* Lesungen written by validating requests only.                            *)

\* Lesung.nummer: the Lesungen of the same Antrag stored with status "E" in
\* Sitzungen with a lower nummer, plus one.
LesungNummer(l) == Cardinality(VorherigeLesungen(lesungen[l], "E")) + 1

\* The requests that run full_clean() before save().
NextValidated ==
    \/ LesungAdminAdd
    \/ \E l \in DOMAIN lesungen :
          \/ LesungAdminChange(l)
          \/ mark_lesung_erfolgreich(l)
    \/ Tick

SpecValidated == InitLife /\ [][NextValidated]_vars

-----------------------------------------------------------------------------
(* Claims about numbering and the save() transactions                       *)

Started == {t \in TxIds : tx[t].pc # "idle"}

Finished(t) == tx[t].pc \in {"done", "failed"}

\* The transaction is past its numbering query and has not ended.
Allocating(t) == tx[t].pc \in {"numbered", "validated"} /\ tx[t].pk = NULL

NothingDeleted == \A v \in vergeben : v[4] \in DOMAIN Table(v[1])

StoredNummern(kind, o) == {Table(kind)[i].nummer : i \in ScopeIds(kind, o)}

ValidationFailed(t) ==
    /\ tx[t].pc = "failed"
    /\ tx[t].err # {}
    /\ tx[t].err \cap {"IntegrityError", "ValueError"} = {}

\* C1: when N concurrent creations of Antraege with valid fields in one
\* Legislatur that held no Antrag before have all ended (and nothing was
\* deleted), every one of them is stored and the numbers stored in that
\* Legislatur are exactly 1..N.
C1_ConcurrentCreationsNumbered ==
    \A leg \in DOMAIN legislaturen :
        ( /\ Started # {}
          /\ NothingDeleted
          /\ ScopeIds("Antrag", [legislatur |-> leg]) \subseteq TxIds
          /\ \A t \in Started :
                /\ Finished(t)
                /\ tx[t].kind = "Antrag"
                /\ tx[t].pk = NULL
                /\ tx[t].obj.legislatur = leg
                /\ AntragCleanFields(tx[t].obj) \cup AntragClean(tx[t].obj) = {} )
        => /\ \A t \in Started : tx[t].pc = "done"
           /\ StoredNummern("Antrag", [legislatur |-> leg])
                  = 1..Cardinality(Started)

\* C2: two creations in one numbering scope that are both between their
\* numbering query and their commit never hold the same computed nummer.
C2_AllocationSerialized ==
    \A t, u \in TxIds :
        ( /\ t # u
          /\ Allocating(t)
          /\ Allocating(u)
          /\ tx[t].kind = tx[u].kind
          /\ ScopeKey(tx[t].kind, tx[t].obj) = ScopeKey(tx[u].kind, tx[u].obj) )
        => tx[t].obj.nummer # tx[u].obj.nummer

\* C6: a newly inserted row's nummer is strictly greater than every nummer
\* ever inserted in the same scope before, deleted rows included.
C6_NummerNeverReused ==
    [][\A v \in vergeben' \ vergeben :
          \A w \in vergeben :
              (w[1] = v[1] /\ w[2] = v[2]) => v[3] > w[3]]_vars

\* C7: no step of a save() other than the write of a validated object changes
\* any table; in particular the step in which validation fails, and every
\* step before it (the numbering query included), leaves all rows as they are.
C7_FailedSaveWritesNothing ==
    [][\A t \in TxIds :
          (tx'[t] # tx[t] /\ tx'[t].pc # "done") => stores' = stores]_vars

\* A save that had computed nummer 2 failed validation; nummer 1 is still the
\* only one stored in its scope.
C7_Witness ==
    \E t \in TxIds :
        /\ ValidationFailed(t)
        /\ tx[t].pk = NULL
        /\ tx[t].obj.nummer = 2
        /\ tx[t].last_nummer = 1
        /\ StoredNummern(tx[t].kind, tx[t].obj) = {1}

ParentInBeratung(o) ==
    /\ o.hauptantrag \in DOMAIN antraege
    /\ antraege[o.hauptantrag].status = "B"

\* C9: an Unterantrag save (create or edit) that reaches validation while its
\* Hauptantrag is not stored with status "B" fails with an error on
\* hauptantrag and writes nothing, whatever its other fields are.
C9_UnterantragNeedsBeratung ==
    [][\A t \in TxIds :
          ( /\ tx[t].kind = "Unterantrag"
            /\ tx[t].pc = "numbered"
            /\ ~ParentInBeratung(tx[t].obj)
            /\ tx'[t] # tx[t] )
          => /\ tx'[t].pc = "failed"
             /\ "hauptantrag" \in tx'[t].err
             /\ stores' = stores]_vars

\* An edit of a stored Unterantrag with valid fields was refused because its
\* Hauptantrag had left "B".
C9_Witness ==
    \E t \in TxIds :
        /\ tx[t].kind = "Unterantrag"
        /\ tx[t].pk # NULL
        /\ tx[t].pc = "failed"
        /\ tx[t].err = {"hauptantrag"}
        /\ ~ParentInBeratung(tx[t].obj)

-----------------------------------------------------------------------------
(* Claims about Lesungen and the decision of an Antrag                      *)

\* The Lesung as it is handed to save(): abstimmbar is still what it was.
BeforeSave(l, row) ==
    [row EXCEPT !.abstimmbar = IF l \in DOMAIN lesungen
                               THEN lesungen[l].abstimmbar ELSE FALSE]

\* C3: antrag_angenommen / antrag_abgelehnt on a Lesung either leave every
\* table as it was, or end with the Lesung stored as "A" (Voted) and its
\* Antrag stored with the new status.
C3_DecisionAllOrNothing ==
    [][result'.op \in {"antrag_angenommen", "antrag_abgelehnt"}
       => \/ stores' = stores
          \/ LET l == result'.target
             IN  /\ lesungen'[l].status = "A"
                 /\ antraege'[lesungen'[l].antrag].status
                       = IF result'.op = "antrag_angenommen"
                         THEN "A" ELSE "N"]_vars

\* C4: every Lesung row that a step writes passes full_clean() as it was
\* handed to save(), whichever path wrote it.
C4_LesungWrittenOnlyValidated ==
    [][\A l \in DOMAIN lesungen' :
          (l \notin DOMAIN lesungen \/ lesungen'[l] # lesungen[l])
          => LesungFullClean(BeforeSave(l, lesungen'[l]), l) = {}]_vars

\* C5: the status of a stored Antrag changes only while it is "B"; once it
\* is "A" or "N" it stays what it is.
C5_TerminalStatusFinal ==
    [][\A a \in DOMAIN antraege \cap DOMAIN antraege' :
          antraege'[a].status # antraege[a].status
          => antraege[a].status = "B"]_vars

\* C8: every Antrag stored as "A" or "N" has a stored Lesung with status "A"
\* (Voted).
C8_DecidedHasVotedLesung ==
    \A a \in DOMAIN antraege :
        antraege[a].status \in {"A", "N"}
        => \E l \in DOMAIN lesungen :
              lesungen[l].antrag = a /\ lesungen[l].status = "A"

\* Another stored Lesung of the same Antrag, in a Sitzung with a lower
\* nummer, is already voted.
AndereAbgestimmt(o, pk) == VorherigeLesungen(o, "A") \ {pk} # {}

\* C10: in every state, whatever the add form or a change form submits with
\* status "A" for an Antrag that has another Lesung already voted in a
\* Sitzung with a lower nummer fails validation; on a change the Lesung
\* itself does not count as that other Lesung; and the last request that
\* stored a Lesung with status "A" left no voted Lesung of its Antrag in a
\* Sitzung with a lower nummer.
C10_SecondVotedLesungRejected ==
    /\ \A o \in LesungAddInputs :
          (o.status = "A" /\ AndereAbgestimmt(o, NewLesungId))
          => LesungFullClean(o, NewLesungId) # {}
    /\ \A l \in DOMAIN lesungen : \A o \in LesungChangeInputs(l) :
          /\ (o.status = "A" /\ AndereAbgestimmt(o, l))
             => LesungFullClean(o, l) # {}
          /\ "bereits_abgestimmt" \in LesungFullClean(o, l)
             => AndereAbgestimmt(o, l)
    /\ (result.obj # <<>> /\ result.ok /\ result.obj.status = "A")
       => VorherigeLesungen(result.obj, "A") = {}

\* The add form submitted a Lesung with status "A" in a Sitzung with a higher
\* nummer than that of a stored voted Lesung of the same Antrag, and was
\* refused for that reason; nothing was stored for it.
C10_Witness ==
    /\ result.op = "lesung_add"
    /\ ~result.ok
    /\ result.err = {"bereits_abgestimmt"}
    /\ result.obj.status = "A"
    /\ \E l \in DOMAIN lesungen :
          /\ lesungen[l].antrag = result.obj.antrag
          /\ lesungen[l].status = "A"
          /\ sitzungen[lesungen[l].sitzung].nummer
                 < sitzungen[result.obj.sitzung].nummer
    /\ ~\E l \in DOMAIN lesungen :
          /\ lesungen[l].antrag = result.obj.antrag
          /\ lesungen[l].sitzung = result.obj.sitzung

\* The stored Lesung that the last request wrote.
LastSaved ==
    {l \in DOMAIN lesungen :
        /\ result.obj # <<>>
        /\ result.ok
        /\ lesungen[l].antrag = result.obj.antrag
        /\ lesungen[l].sitzung = result.obj.sitzung}

ErfolgreichVorher(l) == Cardinality(VorherigeLesungen(lesungen[l], "E"))

\* C11: the Lesung that a request has just saved is stored with abstimmbar
\* true exactly when the number of earlier Lesungen of its Antrag, stored
\* with status "E" in Sitzungen with a lower nummer, is at least
\* minlesungen - 1.
C11_AbstimmbarRecomputed ==
    \A l \in LastSaved :
        lesungen[l].abstimmbar
            = (ErfolgreichVorher(l)
                   >= antraege[lesungen[l].antrag].minlesungen - 1)

-----------------------------------------------------------------------------
(* Claims about Legislaturen                                                *)

\* C12: the formell_eingereicht date of every stored Antrag lies within
\* anfangsdatum..enddatum of its Legislatur.
C12_FormellInLegislatur ==
    \A a \in DOMAIN antraege :
        antraege[a].formell_eingereicht # None
        => InLegislatur(antraege[a].legislatur,
                        antraege[a].formell_eingereicht[1])

\* C18: a save() of an Antrag or Sitzung that names no Legislatur fails with
\* ValueError and changes no table when no Legislatur is stored, and otherwise
\* goes on with the Legislatur of the highest nummer, which is what it
\* stores; a failed save() does nothing further.
C18_OhneLegislatur ==
    [][\A t \in TxIds :
          /\ (tx[t].pc = "idle" /\ tx'[t].pc # "idle")
             => IF DOMAIN legislaturen = {}
                THEN /\ tx'[t].pc = "failed"
                     /\ tx'[t].err = {"ValueError"}
                     /\ stores' = stores
                ELSE tx'[t].obj.legislatur = MaxOf(DOMAIN legislaturen)
          /\ tx[t].pc = "failed" => tx'[t] = tx[t]
          /\ (tx[t].pc # "done" /\ tx'[t].pc = "done")
             => (IF tx[t].kind = "Antrag" THEN antraege' ELSE sitzungen')[t]
                    .legislatur = tx[t].obj.legislatur]_vars

\* One save() failed with ValueError when no Legislatur was stored; after
\* Legislaturen 1 and 2 were added another stored its Antrag in Legislatur 2.
C18_Witness ==
    \E t, u \in TxIds :
        /\ tx[t].pc = "failed"
        /\ tx[t].err = {"ValueError"}
        /\ t \notin DOMAIN antraege \cup DOMAIN sitzungen
        /\ tx[u].pc = "done"
        /\ tx[u].kind = "Antrag"
        /\ DOMAIN legislaturen = {1, 2}
        /\ antraege[u].legislatur = 2

\* C19: a newly stored Sitzung has nummer 1 + the highest nummer among the
\* Sitzungen stored for its own Legislatur, 1 if there were none.
C19_SitzungNummerPerLegislatur ==
    [][\A s \in DOMAIN sitzungen' \ DOMAIN sitzungen :
          sitzungen'[s].nummer
              = 1 + MaxOf({sitzungen[i].nummer : i \in
                              {j \in DOMAIN sitzungen :
                                  sitzungen[j].legislatur
                                      = sitzungen'[s].legislatur}})]_vars

-----------------------------------------------------------------------------
(* Claims about the validation of an Antrag                                 *)

Validated == IF result.op = "antrag_full_clean" THEN {result.obj} ELSE {}

SummeUnset(o) == o.antragssumme = None

\* C13: an Antrag of typ "F" whose antragssumme is unset or not greater than
\* 0, or whose haushaltsposten is empty, fails full_clean(); an Antrag of
\* another typ with an antragssumme other than 0 or a haushaltsposten fails
\* full_clean().
C13_FinanzRegel ==
    \A o \in Validated :
        /\ ( /\ o.typ = "F"
             /\ \/ SummeUnset(o)
                \/ o.antragssumme[1] <= 0
                \/ o.haushaltsposten = "" )
           => ~result.ok
        /\ ( /\ o.typ # "F"
             /\ \/ ~SummeUnset(o) /\ o.antragssumme[1] # 0
                \/ o.haushaltsposten # "" )
           => ~result.ok

\* An Antrag of typ "A", valid but for its antragssumme of 5, was refused
\* with an error on antragssumme.
C13_Witness ==
    \E o \in Validated :
        /\ o.typ = "A"
        /\ o.antragssumme = Some(5)
        /\ o.haushaltsposten = ""
        /\ ~result.ok
        /\ result.err = {"antragssumme"}

-----------------------------------------------------------------------------
(* Claims about uniqueness                                                  *)

\* C20: no two stored Anträge of one Legislatur share a nummer, no two
\* stored Unteranträge of one Hauptantrag share a nummer, and no two stored
\* Lesungen share Antrag and Sitzung.
C20_UniqueConstraintsHold ==
    /\ \A a, b \in DOMAIN antraege :
          ( /\ a # b
            /\ antraege[a].legislatur = antraege[b].legislatur )
          => antraege[a].nummer # antraege[b].nummer
    /\ \A a, b \in DOMAIN unterantraege :
          ( /\ a # b
            /\ unterantraege[a].hauptantrag = unterantraege[b].hauptantrag )
          => unterantraege[a].nummer # unterantraege[b].nummer
    /\ \A a, b \in DOMAIN lesungen :
          ( /\ a # b
            /\ lesungen[a].antrag = lesungen[b].antrag )
          => lesungen[a].sitzung # lesungen[b].sitzung

\* Two concurrent save() calls had computed the same nummer for Anträge of
\* one Legislatur and both passed full_clean(); one is stored and the
\* database refused the other.
C20_Witness ==
    \E t, u \in TxIds :
        /\ tx[t].kind = "Antrag"
        /\ tx[u].kind = "Antrag"
        /\ tx[t].pc = "done"
        /\ tx[u].pc = "failed"
        /\ tx[u].err = {"IntegrityError"}
        /\ tx[u].obj.legislatur = antraege[t].legislatur
        /\ tx[u].obj.nummer = antraege[t].nummer

-----------------------------------------------------------------------------
(* Claims about the agenda                                                  *)

\* The blocks the last call of buildTOPs returned, the Lesungen as it walked
\* them, and the names it used.
Bloecke == IF result.op = "buildTOPs" THEN result.obj.grouped ELSE <<>>

Gelaufen == IF result.op = "buildTOPs" THEN result.obj.lesungen ELSE <<>>

Namen == topnames_by_prio(result.target)

\* The members of the first k blocks of g, one after the other.
Flat(g, k) ==
    LET f[i \in 0..k] == IF i = 0 THEN <<>> ELSE f[i - 1] \o g[i].lesungen
    IN  f[k]

\* The places in the walk at which a block begins.
Starts(g) == {Len(Flat(g, k - 1)) + 1 : k \in 1..Len(g)}

PrioChanges(q, i) == i = 1 \/ PrioOf(q[i]) # PrioOf(q[i - 1])

\* C14: the blocks are the walk cut at exactly those places where the prio
\* changes and either has a name or is that of the first Lesung; every other
\* Lesung goes into the block that was open.
C14_BlockOpensIffNamedOrFirst ==
    /\ Flat(Bloecke, Len(Bloecke)) = Gelaufen
    /\ Starts(Bloecke)
           = {i \in 1..Len(Gelaufen) :
                 /\ PrioChanges(Gelaufen, i)
                 /\ PrioOf(Gelaufen[i]) \in DOMAIN Namen \/ i = 1}

\* A Lesung with a prio that has no name sits in a block opened for another
\* prio.
C14_Witness ==
    \E k \in 1..Len(Bloecke) : \E j \in 1..Len(Bloecke[k].lesungen) :
        /\ PrioOf(Bloecke[k].lesungen[j]) # Bloecke[k].prio
        /\ PrioOf(Bloecke[k].lesungen[j]) \notin DOMAIN Namen

\* buildTOPs ran on a Sitzung with four Lesungen, two of prio 500 and two of
\* prio 300, with names for exactly 500 ("Finanzen") and 300 ("Satzung").
ZweiFinanzZweiSatzung ==
    /\ result.op = "buildTOPs"
    /\ Len(Gelaufen) = 4
    /\ Cardinality({i \in 1..4 : PrioOf(Gelaufen[i]) = 500}) = 2
    /\ Cardinality({i \in 1..4 : PrioOf(Gelaufen[i]) = 300}) = 2
    /\ DOMAIN Namen = {300, 500}

\* Block k carries the name and holds n Lesungen.
BlockIs(k, name, n) ==
    /\ Bloecke[k].titel[Len(Bloecke[k].titel)] = name
    /\ Len(Bloecke[k].lesungen) = n

\* C15 as stated: for that Sitzung the result is two blocks, first
\* "Finanzen" with 2 Lesungen, then "Satzung" with 2 Lesungen.
C15_FinanzenThenSatzung ==
    ZweiFinanzZweiSatzung
    => /\ Len(Bloecke) = 2
       /\ BlockIs(1, "Finanzen", 2)
       /\ BlockIs(2, "Satzung", 2)

\* C15, amended: for that Sitzung the result is two blocks, first the block
\* titled "TOP Satzung" with the 2 Lesungen of prio 300, then the block
\* titled "TOP Finanzen" with the 2 Lesungen of prio 500.
C15_SatzungThenFinanzen ==
    ZweiFinanzZweiSatzung
    => /\ Len(Bloecke) = 2
       /\ Bloecke[1].titel = <<"TOP ", "Satzung">>
       /\ Len(Bloecke[1].lesungen) = 2
       /\ \A j \in 1..2 : PrioOf(Bloecke[1].lesungen[j]) = 300
       /\ Bloecke[2].titel = <<"TOP ", "Finanzen">>
       /\ Len(Bloecke[2].lesungen) = 2
       /\ \A j \in 1..2 : PrioOf(Bloecke[2].lesungen[j]) = 500

\* buildTOPs returned its blocks for such a Sitzung.
C15_Witness == ZweiFinanzZweiSatzung /\ Len(Bloecke) = 2

\* C16: every Lesung of the Sitzung is a member of exactly one block at
\* exactly one place, every member is a Lesung of the Sitzung, and the members
\* in the order of the blocks ascend by prio and, within a prio, by the
\* formell_eingereicht of their Antrag.
C16_PartitionInAgendaOrder ==
    result.op = "buildTOPs"
    => LET f == Flat(Bloecke, Len(Bloecke))
       IN  /\ \A l \in LesungenIn(result.target) :
                 Cardinality({<<k, j>> \in (1..Len(Bloecke)) \X (1..Len(f)) :
                                 /\ j <= Len(Bloecke[k].lesungen)
                                 /\ Bloecke[k].lesungen[j] = l}) = 1
           /\ \A i \in 1..Len(f) : f[i] \in LesungenIn(result.target)
           /\ \A i, j \in 1..Len(f) :
                 i < j
                 => \/ PrioOf(f[i]) < PrioOf(f[j])
                    \/ /\ PrioOf(f[i]) = PrioOf(f[j])
                       /\ EingereichtOf(f[i]) <= EingereichtOf(f[j])

\* The agenda of Sitzung 1 has two blocks, two members of one prio whose
\* Anträge were submitted at different times, and leaves out the Lesung of
\* Sitzung 2.
C16_Witness ==
    /\ result.op = "buildTOPs"
    /\ result.target = 1
    /\ Len(Bloecke) = 2
    /\ LesungenIn(2) # {}
    /\ \E i, j \in 1..Len(Gelaufen) :
          /\ PrioOf(Gelaufen[i]) = PrioOf(Gelaufen[j])
          /\ EingereichtOf(Gelaufen[i]) < EingereichtOf(Gelaufen[j])

\* C17: the k-th block returned carries k in a field next to its title and
\* its members.
C17_BlockCarriesIndex ==
    \A k \in 1..Len(Bloecke) :
        \E fld \in DOMAIN Bloecke[k] \ {"titel", "lesungen"} :
            Bloecke[k][fld] = k

-----------------------------------------------------------------------------
(* Claims about the validation and the save of one Lesung                   *)

\* The last request validated a Lesung whose Antrag and Sitzung exist.
LesungValidated ==
    /\ result.op \in {"lesung_add", "lesung_change", "mark_lesung_erfolgreich"}
    /\ result.obj.antrag \in DOMAIN antraege
    /\ result.obj.sitzung \in DOMAIN sitzungen

SitzungNochNichtBegonnen(s) == sitzungen[s].anfang > now

SitzungBeendet(s) == sitzungen[s].ende # None /\ sitzungen[s].ende[1] < now

\* C21: a validated Lesung of a Sitzung that has not begun was accepted only
\* with status AV, NN or T, and one of a Sitzung that has ended only with
\* status E, V, ZV, B or A.
C21_StatusFollowsSitzungTime ==
    LesungValidated /\ result.ok
    => /\ SitzungNochNichtBegonnen(result.obj.sitzung)
             => result.obj.status \in {"AV", "NN", "T"}
       /\ SitzungBeendet(result.obj.sitzung)
             => result.obj.status \in {"E", "V", "ZV", "B", "A"}

\* C21, amended: a validated Lesung of a Sitzung that has not begun was
\* accepted only with status AV, NN or T, and one of a Sitzung that has ended
\* only with status E, V, ZV, B, A or NT.
C21_StatusFollowsSitzungTimeOrNT ==
    LesungValidated /\ result.ok
    => /\ SitzungNochNichtBegonnen(result.obj.sitzung)
             => result.obj.status \in {"AV", "NN", "T"}
       /\ SitzungBeendet(result.obj.sitzung)
             => result.obj.status \in {"E", "V", "ZV", "B", "A", "NT"}

\* A Lesung with status NT was accepted and stored for a Sitzung that has
\* ended.
C21_Witness ==
    /\ LesungValidated
    /\ SitzungBeendet(result.obj.sitzung)
    /\ result.ok
    /\ result.obj.status = "NT"
    /\ lesungen # <<>>

\* C22: a Lesung that was validated and saved with dringlichkeit_beantragt
\* set is stored with abstimmbar not set.
C22_DringlichNotAbstimmbar ==
    LesungValidated /\ result.ok /\ result.obj.dringlichkeit_beantragt
    => \A l \in DOMAIN lesungen :
           /\ lesungen[l].antrag = result.obj.antrag
           /\ lesungen[l].sitzung = result.obj.sitzung
           => ~lesungen[l].abstimmbar

AndereLegislatur(o) ==
    sitzungen[o.sitzung].legislatur # antraege[o.antrag].legislatur

\* C23: a Lesung whose Antrag and Sitzung lie in different Legislaturen fails
\* validation, whatever its status, urgency and prio, and is not stored.
C23_AndereLegislaturRejected ==
    LesungValidated /\ AndereLegislatur(result.obj)
    => /\ ~result.ok
       /\ "legislatur" \in result.err
       /\ \A l \in DOMAIN lesungen : ~AndereLegislatur(lesungen[l])

\* A Lesung with nothing else wrong was refused for its Legislatur alone: it
\* is scheduled, not yet read, in a Sitzung of the other Legislatur that has
\* not begun.
C23_Witness ==
    /\ LesungValidated
    /\ AndereLegislatur(result.obj)
    /\ result.obj.status = "NN"
    /\ ~result.obj.dringlichkeit_beantragt
    /\ result.err = {"legislatur"}

\* The row the last successful add stored.
AddedLesung ==
    CHOOSE l \in DOMAIN lesungen :
        /\ lesungen[l].antrag = result.obj.antrag
        /\ lesungen[l].sitzung = result.obj.sitzung

\* C25: a Lesung saved with a prio is stored with that prio; one saved
\* without is stored with the default_prio of its Antrag.
C25_PrioKeptOrDefaulted ==
    result.op = "lesung_add" /\ result.ok
    => lesungen[AddedLesung].prio
           = IF result.obj.prio # None THEN result.obj.prio
             ELSE Some(default_prio(antraege[result.obj.antrag]))

-----------------------------------------------------------------------------
(* Claims about dates                                                       *)

\* C24: every stored Sitzung begins on a day within its Legislatur and, if it
\* has an end, does not end before it begins.
C24_SitzungInLegislatur ==
    \A s \in DOMAIN sitzungen :
        /\ InLegislatur(sitzungen[s].legislatur, sitzungen[s].anfang)
        /\ sitzungen[s].ende # None
              => sitzungen[s].ende[1] >= sitzungen[s].anfang

\* C26: every stored Legislatur begins no later than it ends.
C26_LegislaturStartBeforeEnd ==
    \A l \in DOMAIN legislaturen :
        legislaturen[l].anfangsdatum <= legislaturen[l].enddatum

-----------------------------------------------------------------------------
(* Claims about retrying a failed save                                      *)

\* C27: when save() has been called again on a corrected Antrag and has
\* ended, the Antrag is stored with the nummer one above the highest nummer
\* its Legislatur held when save() was called again.
C27_RetryGetsFreshNummer ==
    result.op = "save_again" /\ Finished(result.target)
    => /\ tx[result.target].pc = "done"
       /\ result.target \in DOMAIN antraege
       /\ antraege[result.target].nummer = result.obj.last_nummer + 1

-----------------------------------------------------------------------------
(* Claims about stored Lesungen over time                                   *)

\* C28: every stored Lesung has abstimmbar true exactly when the Lesungen of
\* its Antrag now stored with status "E" in Sitzungen with a lower nummer
\* number at least minlesungen - 1.
C28_AbstimmbarNeverStale ==
    \A l \in DOMAIN lesungen :
        lesungen[l].abstimmbar
            = (ErfolgreichVorher(l)
                   >= antraege[lesungen[l].antrag].minlesungen - 1)

\* C29: no Antrag has two stored Lesungen with status "A".
C29_AtMostOneAbgestimmt ==
    \A a \in DOMAIN antraege :
        Cardinality({l \in DOMAIN lesungen :
                        lesungen[l].antrag = a /\ lesungen[l].status = "A"})
            <= 1

\* C30: the Lesung a request has just saved is stored with abstimmbar true
\* exactly when its nummer, one more than the earlier Lesungen with status
\* "E", is at least the minlesungen of its Antrag.
C30_AbstimmbarIffNummerReached ==
    \A l \in LastSaved :
        /\ LesungNummer(l) = 1 + ErfolgreichVorher(l)
        /\ lesungen[l].abstimmbar
              = (LesungNummer(l) >= antraege[lesungen[l].antrag].minlesungen)

====
